---- MODULE Spec2Model ----
(***************************************************************************)
(* State-machine model of the conference schedule browser: the data       *)
(* service, the schedule renderer, the day tabs, the tag cloud, the       *)
(* debounced search and the session detail modal.                          *)
(*                                                                         *)
(* Text (titles, tags, queries) is a sequence of one-character strings,   *)
(* so that trimming, case folding and regular-expression matching are     *)
(* computed.  An optional value is None or Some(x).                        *)
(***************************************************************************)
EXTENDS Integers, Sequences, FiniteSets, TLC

VARIABLES
    phase,           \* "boot" before initApp has run, then "ready" or "failed"
    handlers,        \* the groups of event listeners that have been installed
    conferenceData,  \* the document served at DATA_PATH
    currentFilter,   \* scheduleRenderer's module variable
    banner,          \* the tag named by the .filtered-sessions-heading, if any
    sections,        \* the .day-schedule elements of #schedule-content, in order
    noResults,       \* whether the .no-results element is in #schedule-content
    errorMessage,    \* whether #schedule-content holds the .error-message
    activeSections,  \* day ids of the .day-schedule elements with class active
    activeTabs,      \* the .tab-btn elements with class active
    activeContent,   \* the .tab-content elements with class active
    tagItems,        \* the .tag-cloud-item elements, in order: [tag, count, size]
    activeTags,      \* the .tag-cloud-item elements with class active
    modalActive,     \* #session-modal has class active
    overlayActive,   \* #modal-overlay has class active
    bodyOverflow,    \* document.body.style.overflow
    detail,          \* the session whose details #session-detail shows, if any
    inputValue,      \* searchInputElement.value
    debounceTimer,   \* searchService's module variable: a timer handle or 0
    timers,          \* the pending timeouts: handle -> [term, remaining]
    resultsShown,    \* searchResultsElement.style.display = 'block'
    results,         \* the session ids of the result items, in order
    noMatchItem,     \* the 'No matching sessions found' item is in the panel
    resultsTerm,     \* the term of the search that filled the panel, if any
    lastInput,       \* the trimmed query of the most recent input event, if any
    sinceInput,      \* ms since the most recent input event (capped)
    lastOp,          \* the handler that ran last, and its argument
    published,       \* the custom events the last handler dispatched, in order
    scrollTimeout,   \* the session of the scroll timeout the last handler started, if any
    fetched,         \* what the fetch of DATA_PATH brought
    answer,          \* what the last call of a dataService function returned
    uncaught,        \* whether the last handler or callback ended in an uncaught error
    beforeOpen,      \* the tab/section active state before the detail view last opened
    dismissed        \* a result click or outside click hid the panel, no input event since

vars == <<phase, handlers, conferenceData, currentFilter, banner, sections,
          noResults, errorMessage, activeSections, activeTabs, activeContent,
          tagItems, activeTags, modalActive, overlayActive, bodyOverflow, detail,
          inputValue, debounceTimer, timers, resultsShown, results, noMatchItem,
          resultsTerm, lastInput, sinceInput, lastOp, published, scrollTimeout,
          fetched, answer, uncaught, beforeOpen, dismissed>>

scheduleVars == <<currentFilter, banner, sections, noResults, activeSections>>
modalVars    == <<modalActive, overlayActive, bodyOverflow, detail, beforeOpen>>
searchRest   == <<inputValue, debounceTimer, timers, results, noMatchItem,
                  resultsTerm, lastInput, sinceInput>>
searchVars   == <<searchRest, resultsShown, dismissed>>
loadVars     == <<phase, handlers, conferenceData, errorMessage, tagItems, fetched,
                  answer>>

None == <<>>
Some(x) == <<x>>

Min(a, b) == IF a < b THEN a ELSE b
Max(a, b) == IF a > b THEN a ELSE b

\* the elements of a sequence
Range(s) == {s[i] : i \in 1..Len(s)}

(***************************************************************************)
(* Bounds of the model.                                                    *)
(***************************************************************************)
\* number of timer handles that can be pending at once
MaxTimers == 2
\* ms of time that pass in one Tick
TickMs == 100

(***************************************************************************)
(* Program constants.                                                      *)
(***************************************************************************)
MIN_SEARCH_LENGTH == 2
SEARCH_DEBOUNCE_TIME == 300
MAX_RESULTS == 5

(***************************************************************************)
(* Text.                                                                   *)
(***************************************************************************)
\* String.prototype.trim: strip leading and trailing white space
RECURSIVE TrimLeft(_)
TrimLeft(s) == IF s # <<>> /\ Head(s) = " " THEN TrimLeft(Tail(s)) ELSE s

RECURSIVE TrimRight(_)
TrimRight(s) ==
    IF s # <<>> /\ s[Len(s)] = " " THEN TrimRight(SubSeq(s, 1, Len(s) - 1)) ELSE s

Trim(s) == TrimRight(TrimLeft(s))

\* case folding of one character, as the 'i' flag of RegExp compares
Fold(c) ==
    CASE c = "A" -> "a"
      [] c = "I" -> "i"
      [] c = "U" -> "u"
      [] c = "X" -> "x"
      [] OTHER   -> c

\* new RegExp(term, 'i') throws a SyntaxError on an unterminated group
RegExpThrows(term) == \E i \in 1..Len(term) : term[i] = "("

\* one pattern character against one subject character: "." is the wildcard
CharMatches(p, c) == p = "." \/ Fold(p) = Fold(c)

\* searchRegex.test(s): the pattern matches at some offset of s
RegExpTest(term, s) ==
    \E off \in 0..(Len(s) - Len(term)) :
        \A i \in 1..Len(term) : CharMatches(term[i], s[off + i])

\* JavaScript truthiness of a string
TruthyText(s) == s # <<>>

(***************************************************************************)
(* The documents the server may hold at DATA_PATH.  A session is           *)
(* [id, time, tags, title, speaker, description]; an absent optional field *)
(* is the empty text (both are falsy where the code tests them).           *)
(***************************************************************************)
Session(id, time, tags, title, speaker, description) ==
    [id |-> id, time |-> time, tags |-> tags, title |-> title,
     speaker |-> speaker, description |-> description]

Day(id, name, date, sessions) ==
    [id |-> id, name |-> name, date |-> date, sessions |-> sessions]

ai == <<"a", "i">>
ux == <<"u", "x">>
db == <<"d", "b">>
\* a tag whose text names a property every object inherits
constructorTag == <<"c", "o", "n", "s", "t", "r", "u", "c", "t", "o", "r">>

\* day 1 as in the end-to-end example: three sessions, one tagged "ai"
Day1Plain ==
    Day("day1", "Day 1", "2025-03-01",
        << Session("s1", "09:00", <<ai>>, <<"A", "I">>, <<>>, <<>>),
           Session("s2", "09:00", <<ux>>, <<"u", "x">>, <<"a", "x", "i">>, <<>>),
           Session("s3", "10:00", <<>>, <<"i", "a">>, <<>>, <<"x", "a", "i">>) >>)

\* day 1 with an empty tag, a time that recurs after another one, and a time
\* that is a canonical array index
Day1Odd ==
    Day("day1", "Day 1", "2025-03-01",
        << Session("s1", "10:00", <<ai, <<>> >>, <<"a", "i">>, <<>>, <<>>),
           Session("s2", "7", <<ai>>, <<"u", "x">>, <<>>, <<>>),
           Session("s3", "10:00", <<ai>>, <<>>, <<"U", "x">>, <<>>) >>)

\* day 2 as in the end-to-end example: two sessions, one tagged "ai"
Day2Plain ==
    Day("day2", "Day 2", "2025-03-02",
        << Session("t1", "09:00", <<ai>>, <<"x">>, <<>>, <<>>),
           Session("t2", "10:00", <<db>>, <<"d", "b">>, <<>>, <<>>) >>)

\* day 2 with three more sessions that match "ai" in some field
Day2Many ==
    Day("day2", "Day 2", "2025-03-02",
        << Session("t1", "09:00", <<db>>, <<"a", "I">>, <<>>, <<>>),
           Session("t2", "09:00", <<db, ai>>, <<"x">>, <<>>, <<>>),
           Session("t3", "10:00", <<>>, <<"x">>, <<>>, <<"A", "i">>) >>)

\* day 2 with a session whose time names a property of Object.prototype
Day2Reserved ==
    Day("day2", "Day 2", "2025-03-02",
        << Session("t1", "constructor", <<ai>>, <<"x">>, <<>>, <<>>) >>)

\* day 2 with a session whose tag names a property of Object.prototype
Day2Inherited ==
    Day("day2", "Day 2", "2025-03-02",
        << Session("t1", "09:00", <<constructorTag>>, <<"x">>, <<>>, <<>>) >>)

Day1Variants == {Day1Plain, Day1Odd}
Day2Variants == {Day2Plain, Day2Many, Day2Reserved, Day2Inherited}

Conference(days) == [hasDays |-> TRUE, days |-> days]

\* the well-formed documents
Datasets ==
    {Conference(<<d1>>) : d1 \in Day1Variants}
        \cup {Conference(<<d1, d2>>) : d1 \in Day1Variants, d2 \in Day2Variants}

\* the .tab-btn elements of the page: one per day, and the Topics tab
\* (#tag-cloud-tab), which carries no data-day attribute
DayTabs == {"day1", "day2"}
TopicsTab == "topics"
TabButtons == DayTabs \cup {TopicsTab}

(***************************************************************************)
(* dataService                                                             *)
(***************************************************************************)
\* Array.prototype.flatMap, given the sequence of the callback's results
RECURSIVE FlatMap(_)
FlatMap(mapped) ==
    IF mapped = <<>> THEN <<>> ELSE Head(mapped) \o FlatMap(Tail(mapped))

\* one session with the day information added
Annotated(session, day) ==
    [id |-> session.id, time |-> session.time, tags |-> session.tags,
     title |-> session.title, speaker |-> session.speaker,
     description |-> session.description,
     dayId |-> day.id, dayName |-> day.name, date |-> day.date]

\* getAllSessions that gives every session the first day's information
getAllSessions_firstDay(data) ==
    IF ~data.hasDays
    THEN <<>>
    ELSE LET AnnotatedDay(day) ==
                 [i \in 1..Len(day.sessions) |-> Annotated(day.sessions[i], data.days[1])]
         IN  FlatMap([d \in 1..Len(data.days) |-> AnnotatedDay(data.days[d])])

getAllSessions(data) ==
    IF ~data.hasDays
    THEN <<>>
    ELSE LET AnnotatedDay(day) ==
                 [i \in 1..Len(day.sessions) |-> Annotated(day.sessions[i], day)]
         IN  FlatMap([d \in 1..Len(data.days) |-> AnnotatedDay(data.days[d])])

\* Array.prototype.find with the test `element.id === id`: the first such
\* element, if any
Find(s, id) ==
    LET hits == SelectSeq(s, LAMBDA e : e.id = id)
    IN  IF hits = <<>> THEN None ELSE Some(Head(hits))

\* getSessionsByDay that falls back on the first day
getSessionsByDay_orFirst(data, dayId) ==
    IF ~data.hasDays \/ data.days = <<>>
    THEN <<>>
    ELSE LET day == Find(data.days, dayId)
         IN  IF day # None THEN day[1].sessions ELSE data.days[1].sessions

getSessionsByDay(data, dayId) ==
    IF ~data.hasDays
    THEN <<>>
    ELSE LET day == Find(data.days, dayId)
         IN  IF day # None THEN day[1].sessions ELSE <<>>

\* getSessionById that falls back on the first session
getSessionById_orFirst(data, sessionId) ==
    LET all == getAllSessions(data)
        found == Find(all, sessionId)
    IN  IF found = None /\ all # <<>> THEN Some(all[1]) ELSE found

getSessionById(data, sessionId) ==
    Find(getAllSessions(data), sessionId)

\* Array.prototype.includes on a list of texts
Includes(list, x) == \E i \in 1..Len(list) : list[i] = x

(***************************************************************************)
(* scheduleRenderer                                                        *)
(***************************************************************************)
\* JavaScript truthiness of the filterTag parameter: null and '' are falsy
TruthyTag(filterTag) == filterTag # None /\ TruthyText(filterTag[1])

\* property names every object inherits from Object.prototype
PrototypeKeys == {"constructor", "toString", "__proto__"}

\* the property names that are canonical array indices, with their values
IndexKeys == {"7"}
IndexValue(key) == IF key = "7" THEN 7 ELSE 0

\* the time values of the sessions in the order in which each is first seen
RECURSIVE FirstSeen(_, _)
FirstSeen(sessions, seen) ==
    IF sessions = <<>>
    THEN seen
    ELSE FirstSeen(Tail(sessions),
                   IF Includes(seen, Head(sessions).time)
                   THEN seen
                   ELSE Append(seen, Head(sessions).time))

\* groupSessionsByTime throws a TypeError (push is not a function) when a
\* time names an inherited property, which is truthy before any assignment
groupSessionsByTimeThrows(sessions) ==
    \E i \in 1..Len(sessions) : sessions[i].time \in PrototypeKeys

\* Object.keys of the grouping object: index keys ascending, then the other
\* keys in insertion order
ObjectKeys(inserted) ==
    SortSeq(SelectSeq(inserted, LAMBDA k : k \in IndexKeys),
            LAMBDA a, b : IndexValue(a) < IndexValue(b))
        \o SelectSeq(inserted, LAMBDA k : k \notin IndexKeys)

\* groupSessionsByTime: the sessions pushed under each time, in input order
groupSessionsByTime(sessions, time) ==
    SelectSeq(sessions, LAMBDA session : session.time = time)

\* the sessions of the day that pass the filter, in the day's order
VisibleSessions(data, day, filterTag) ==
    LET sessionsForDay == getSessionsByDay(data, day.id)
    IN  IF TruthyTag(filterTag)
        THEN SelectSeq(sessionsForDay,
                       LAMBDA session : Includes(session.tags, filterTag[1]))
        ELSE sessionsForDay

\* createDayScheduleElement: a .day-schedule with one .time-slot per key
createDayScheduleElement(day, data, filterTag) ==
    LET sessionsForDay == VisibleSessions(data, day, filterTag)
        keys == ObjectKeys(FirstSeen(sessionsForDay, <<>>))
    IN  [day   |-> day.id,
         slots |-> [k \in 1..Len(keys) |->
                      [time     |-> keys[k],
                       sessions |-> LET group == groupSessionsByTime(sessionsForDay, keys[k])
                                    IN  [i \in 1..Len(group) |-> group[i].id]]]]

\* the session ids of the .session elements of a section, in document order
SessionsOf(section) ==
    FlatMap([k \in 1..Len(section.slots) |-> section.slots[k].sessions])

\* renderSchedule returns early on invalid data
InvalidData(data) == ~data.hasDays \/ data.days = <<>>

\* renderSchedule throws where a day's grouping throws
renderScheduleThrows(data, filterTag) ==
    /\ ~InvalidData(data)
    /\ \E d \in 1..Len(data.days) :
           groupSessionsByTimeThrows(VisibleSessions(data, data.days[d], filterTag))

\* the .day-schedule elements renderSchedule appends: the days with a session
RenderedSections(data, filterTag) ==
    LET all == [d \in 1..Len(data.days) |->
                  createDayScheduleElement(data.days[d], data, filterTag)]
    IN  SelectSeq(all, LAMBDA section : Len(SessionsOf(section)) > 0)

\* renderSchedule that never appends the .no-results message
renderSchedule_noMessage(data, filterTag) ==
    IF InvalidData(data)
    THEN UNCHANGED scheduleVars
    ELSE LET rendered == RenderedSections(data, filterTag)
         IN  /\ currentFilter' = filterTag
             /\ banner' = IF TruthyTag(filterTag) THEN filterTag ELSE None
             /\ sections' = rendered
             /\ activeSections' = IF rendered # <<>> THEN {rendered[1].day} ELSE {}
             /\ noResults' = FALSE

\* renderSchedule(conferenceData, filterTag), on data whose grouping does not throw
renderSchedule(data, filterTag) ==
    IF InvalidData(data)
    THEN UNCHANGED scheduleVars
    ELSE LET rendered == RenderedSections(data, filterTag)
         IN  /\ currentFilter' = filterTag
             /\ banner' = IF TruthyTag(filterTag) THEN filterTag ELSE None
             /\ sections' = rendered
             /\ activeSections' = IF rendered # <<>> THEN {rendered[1].day} ELSE {}
             /\ noResults' = (rendered = <<>> /\ TruthyTag(filterTag))

\* setActiveDay that does not take the class from the other sections
setActiveDay_keepsOthers(dayId, shown) ==
    activeSections \cup (IF \E i \in 1..Len(shown) : shown[i].day = dayId THEN {dayId} ELSE {})

\* setActiveDay(dayId)
setActiveDay(dayId, shown) ==
    IF \E i \in 1..Len(shown) : shown[i].day = dayId THEN {dayId} ELSE {}

(***************************************************************************)
(* tagCloudService                                                         *)
(***************************************************************************)
\* UTF-16 code unit of a character of the model's alphabet
CodeUnit(c) ==
    CASE c = " " -> 32
      [] c = "(" -> 40
      [] c = "." -> 46
      [] c = "A" -> 65
      [] c = "I" -> 73
      [] c = "U" -> 85
      [] c = "X" -> 88
      [] c = "a" -> 97
      [] c = "b" -> 98
      [] c = "c" -> 99
      [] c = "d" -> 100
      [] c = "i" -> 105
      [] c = "n" -> 110
      [] c = "o" -> 111
      [] c = "r" -> 114
      [] c = "s" -> 115
      [] c = "t" -> 116
      [] c = "u" -> 117
      [] c = "x" -> 120
      [] c = "z" -> 122
      [] OTHER   -> 0

\* the default comparison of Array.prototype.sort: by code units
RECURSIVE TextLess(_, _)
TextLess(a, b) ==
    IF b = <<>> THEN FALSE
    ELSE IF a = <<>> THEN TRUE
    ELSE IF Head(a) # Head(b) THEN CodeUnit(Head(a)) < CodeUnit(Head(b))
    ELSE TextLess(Tail(a), Tail(b))

\* the keys of tagCounts in insertion order: every tag, where first seen
RECURSIVE TagKeys(_, _)
TagKeys(tags, seen) ==
    IF tags = <<>>
    THEN seen
    ELSE TagKeys(Tail(tags),
                 IF Includes(seen, Head(tags)) THEN seen ELSE Append(seen, Head(tags)))

\* every tag occurrence of every session, in getAllSessions order
AllTags(data) ==
    LET all == getAllSessions(data)
    IN  FlatMap([i \in 1..Len(all) |-> all[i].tags])

\* the font sizes, in tenths of an em
MIN_FONT_SIZE == 10
MAX_FONT_SIZE == 22

\* values of a property of tagCounts that are no count: the number NaN, the
\* value of a property not there, and a function inherited from
\* Object.prototype
NaN == -1
Undefined == -2
Inherited == -3

\* the tags that name an inherited property of the fresh object tagCounts
InheritedTags == {constructorTag}

\* !value
Falsy(value) == value \in {0, NaN, Undefined}

\* value++ : a function converts to NaN, and NaN + 1 is NaN
Increment(value) == IF value \in {NaN, Undefined, Inherited} THEN NaN ELSE value + 1

\* the forEach of getTagCounts, for the property of one tag
RECURSIVE CountTag(_, _, _)
CountTag(occurrences, tag, value) ==
    IF occurrences = <<>>
    THEN value
    ELSE CountTag(Tail(occurrences), tag,
                  IF Head(occurrences) = tag
                  THEN Increment(IF Falsy(value) THEN 0 ELSE value)
                  ELSE value)

\* getTagCounts(conferenceData)[tag]
getTagCounts(data, tag) ==
    CountTag(AllTags(data), tag, IF tag \in InheritedTags THEN Inherited ELSE Undefined)

\* Math.max and Math.min of the counts: NaN as soon as one of them is NaN
MathMax(counts) ==
    IF \E k \in 1..Len(counts) : counts[k] = NaN
    THEN NaN
    ELSE CHOOSE m \in Range(counts) : \A k \in 1..Len(counts) : counts[k] <= m

MathMin(counts) ==
    IF \E k \in 1..Len(counts) : counts[k] = NaN
    THEN NaN
    ELSE CHOOSE m \in Range(counts) : \A k \in 1..Len(counts) : m <= counts[k]

\* a font size as the fraction num / den of tenths of an em, den > 0
Size(num, den) == [num |-> num, den |-> den]

\* createTagElement: the item with its font size; NaN !== NaN, so that a NaN
\* among the counts takes the interpolation, whose result is then NaN
createTagElement(tag, count, minCount, maxCount) ==
    [tag   |-> tag,
     count |-> count,
     size  |-> IF NaN \in {count, minCount, maxCount}
               THEN Size(NaN, 1)
               ELSE IF maxCount # minCount
               THEN Size(MIN_FONT_SIZE * (maxCount - minCount)
                             + (count - minCount) * (MAX_FONT_SIZE - MIN_FONT_SIZE),
                         maxCount - minCount)
               ELSE Size(MIN_FONT_SIZE, 1)]

\* renderTagCloud: one .tag-cloud-item per tag, sorted
renderTagCloud(data) ==
    LET keys == SortSeq(TagKeys(AllTags(data), <<>>), TextLess)
        counts == [k \in 1..Len(keys) |-> getTagCounts(data, keys[k])]
    IN  [k \in 1..Len(keys) |->
           createTagElement(keys[k], counts[k], MathMin(counts), MathMax(counts))]

\* the .tag-cloud-item elements whose textContent is the tag
ItemsNamed(items, tag) == {items[k].tag : k \in {j \in 1..Len(items) : items[j].tag = tag}}

(***************************************************************************)
(* searchService                                                           *)
(***************************************************************************)
\* the filter predicate without the test of the description
SearchMatches_skipsDescription(term, session) ==
    \/ TruthyText(session.title) /\ RegExpTest(term, session.title)
    \/ TruthyText(session.speaker) /\ RegExpTest(term, session.speaker)
    \/ \E t \in 1..Len(session.tags) : RegExpTest(term, session.tags[t])

\* the filter predicate of performSearch
SearchMatches(term, session) ==
    \/ TruthyText(session.title) /\ RegExpTest(term, session.title)
    \/ TruthyText(session.speaker) /\ RegExpTest(term, session.speaker)
    \/ TruthyText(session.description) /\ RegExpTest(term, session.description)
    \/ \E t \in 1..Len(session.tags) : RegExpTest(term, session.tags[t])

\* Array.prototype.slice(0, n)
Slice(s, n) == SubSeq(s, 1, Min(Len(s), n))

\* performSearch: the sessions handed to displaySearchResults
SearchResults(term, allSessions) ==
    Slice(SelectSeq(allSessions, LAMBDA session : SearchMatches(term, session)),
          MAX_RESULTS)

\* the timer handles
Handles == 1..MaxTimers

\* clearTimeout that cancels nothing
clearTimeout_noop(pending, handle) == pending

\* clearTimeout(handle): cancelling 0 or a handle no longer pending does nothing
clearTimeout(pending, handle) ==
    IF handle \in Handles THEN [pending EXCEPT ![handle] = None] ELSE pending

\* a handle setTimeout can return: not pending, and not one still held from
\* an earlier call (handles are never reused in the browser)
FreeHandles(pending, held) == {h \in Handles : pending[h] = None /\ h # held}

PendingHandles == {h \in Handles : timers[h] # None}

(***************************************************************************)
(* History bookkeeping.                                                    *)
(***************************************************************************)
NoText == <<>>
Op(op, day, session, text) ==
    [op |-> op, day |-> day, session |-> session, text |-> text]

Event(name, sessionId, tag) == [name |-> name, sessionId |-> sessionId, tag |-> tag]

(***************************************************************************)
(* What the fetch of DATA_PATH can bring.                                  *)
(***************************************************************************)
\* a JSON object without a days property
NoDaysDocument == [hasDays |-> FALSE, days |-> <<>>]

\* a days array without days
EmptyConference == Conference(<<>>)

Documents == Datasets \cup {NoDaysDocument, EmptyConference}

Responses ==
    {[outcome |-> o, body |-> NoDaysDocument] :
         o \in {"networkError", "httpError", "malformedJson", "nullDocument"}}
        \cup {[outcome |-> "ok", body |-> doc] : doc \in Documents}

\* the values the user can bring into the search field
InputValues ==
    { <<>>, <<"a">>, <<" ", "a", " ">>, <<"a", "i">>, <<" ", "A", "I">>,
      <<"a", ".">>, <<"z", "z">>, <<"a", "(">> }

(***************************************************************************)
(* Initial state: the page as served, before initApp has run.              *)
(***************************************************************************)
Init ==
    /\ phase = "boot"
    /\ handlers = {}
    /\ conferenceData = NoDaysDocument
    /\ currentFilter = None
    /\ banner = None
    /\ sections = <<>>
    /\ noResults = FALSE
    /\ errorMessage = FALSE
    /\ activeSections = {}
    /\ activeTabs = {"day1"}
    /\ activeContent = {"schedule-content"}
    /\ tagItems = <<>>
    /\ activeTags = {}
    /\ modalActive = FALSE
    /\ overlayActive = FALSE
    /\ bodyOverflow = ""
    /\ detail = None
    /\ inputValue = <<>>
    /\ debounceTimer = 0
    /\ timers = [h \in Handles |-> None]
    /\ resultsShown = FALSE
    /\ results = <<>>
    /\ noMatchItem = FALSE
    /\ resultsTerm = None
    /\ lastInput = None
    /\ sinceInput = SEARCH_DEBOUNCE_TIME
    /\ lastOp = Op("none", "", "", NoText)
    /\ published = <<>>
    /\ scrollTimeout = None
    /\ fetched = [outcome |-> "pending", body |-> NoDaysDocument]
    /\ answer = [call |-> "none", arg |-> "", value |-> <<>>]
    /\ uncaught = FALSE
    /\ beforeOpen = None
    /\ dismissed = FALSE

(***************************************************************************)
(* app.js                                                                  *)
(***************************************************************************)
\* a load that fails on a network error only
LoadFails_networkOnly(response) == response.outcome = "networkError"

\* fetchConferenceData throws on a network error, a non-2xx status and
\* malformed JSON; initApp throws on a falsy document
LoadFails(response) == response.outcome # "ok"

\* initApp, run once by the DOMContentLoaded timeout
InitApp(response) ==
    /\ phase = "boot"
    /\ lastOp' = Op("initApp", "", "", NoText)
    /\ published' = <<>>
    /\ scrollTimeout' = None
    /\ fetched' = response
    /\ uncaught' = FALSE
    /\ UNCHANGED <<activeTabs, activeContent, activeTags, modalVars, searchVars,
                   answer>>
    /\ IF LoadFails(response)
       THEN /\ phase' = "failed"
            /\ handlers' = {}
            /\ errorMessage' = TRUE
            /\ UNCHANGED <<conferenceData, tagItems, scheduleVars>>
       ELSE /\ conferenceData' = response.body
            /\ IF renderScheduleThrows(response.body, None)
               THEN \* the catch block replaces what had been rendered
                    /\ phase' = "failed"
                    /\ handlers' = {"tabs"}
                    /\ errorMessage' = TRUE
                    /\ UNCHANGED <<tagItems, scheduleVars>>
               ELSE /\ phase' = "ready"
                    /\ handlers' = {"tabs", "search", "detail", "tagcloud", "bus"}
                    /\ errorMessage' = FALSE
                    /\ renderSchedule(response.body, None)
                    /\ tagItems' = renderTagCloud(response.body)

(***************************************************************************)
(* Handlers.                                                               *)
(***************************************************************************)
\* the document click listener of setupSearch, for a click outside the
\* search input and the results
OutsideClick ==
    /\ resultsShown' = (resultsShown /\ "search" \notin handlers)
    /\ dismissed' = (dismissed \/ (resultsShown /\ "search" \in handlers))
    /\ UNCHANGED searchRest

\* showSessionDetails(sessionId, conferenceData).  Of the timeout that scrolls
\* the schedule entry into view and highlights it for a moment, the start is
\* recorded; its callbacks touch no state that another handler reads.
showSessionDetails(sessionId) ==
    LET found == getSessionById(conferenceData, sessionId)
    IN  IF "detail" \notin handlers \/ found = None
        THEN /\ scrollTimeout' = None
             /\ UNCHANGED <<modalVars, activeTabs, activeSections>>
        ELSE /\ detail' = Some(found[1].id)
             /\ modalActive' = TRUE
             /\ overlayActive' = TRUE
             /\ bodyOverflow' = "hidden"
             /\ beforeOpen' = Some([tabs |-> activeTabs, sections |-> activeSections])
             /\ IF found[1].dayId # ""
                THEN /\ activeTabs' = {b \in DayTabs : b = found[1].dayId}
                     /\ activeSections' = setActiveDay(found[1].dayId, sections)
                     /\ scrollTimeout' = Some(sessionId)
                ELSE /\ scrollTimeout' = None
                     /\ UNCHANGED <<activeTabs, activeSections>>

\* hideSessionDetails that leaves the overlay in place
hideSessionDetails_keepsOverlay ==
    /\ modalActive' = FALSE
    /\ bodyOverflow' = ""
    /\ UNCHANGED <<overlayActive, detail, beforeOpen>>

\* hideSessionDetails()
hideSessionDetails ==
    /\ modalActive' = FALSE
    /\ overlayActive' = FALSE
    /\ bodyOverflow' = ""
    /\ UNCHANGED <<detail, beforeOpen>>

\* click on a tab button: handleDaySelection for a day tab, the Topics
\* listener of setupTagCloud for the Topics tab
TabClick(tab) ==
    /\ "tabs" \in handlers
    /\ lastOp' = Op("tabClick", tab, "", NoText)
    /\ published' = <<>>
    /\ uncaught' = FALSE
    /\ scrollTimeout' = None
    /\ IF tab \in DayTabs
       THEN /\ activeTabs' = {tab}
            /\ activeSections' = setActiveDay(tab, sections)
            /\ UNCHANGED activeContent
       ELSE /\ UNCHANGED activeSections
            /\ IF "tagcloud" \in handlers
               THEN /\ activeContent' = {"tag-cloud-container"}
                    /\ activeTabs' = {TopicsTab}
               ELSE UNCHANGED <<activeContent, activeTabs>>
    /\ OutsideClick
    /\ UNCHANGED <<loadVars, currentFilter, banner, sections, noResults,
                   activeTags, modalVars>>

\* filterSessionsByTag(tag, conferenceData)
filterSessionsByTag(tag) ==
    /\ renderSchedule(conferenceData, Some(tag))
    /\ activeContent' = {"schedule-content"}
    /\ activeTabs' = {"day1"}

\* showSessionsByTag that leaves the highlight of the other tags in place
TagClick_keepsOthers(tag) ==
    /\ "tagcloud" \in handlers
    /\ \E k \in 1..Len(tagItems) : tagItems[k].tag = tag
    /\ lastOp' = Op("tagClick", "", "", Some(tag))
    /\ published' = <<Event("filter-by-tag", "", Some(tag))>>
    /\ scrollTimeout' = None
    /\ uncaught' = FALSE
    /\ filterSessionsByTag(tag)
    /\ activeTags' = activeTags \cup ItemsNamed(tagItems, tag)
    /\ OutsideClick
    /\ UNCHANGED <<loadVars, modalVars>>

\* click on a tag of the cloud: showSessionsByTag(tag)
TagClick(tag) ==
    /\ "tagcloud" \in handlers
    /\ \E k \in 1..Len(tagItems) : tagItems[k].tag = tag
    /\ lastOp' = Op("tagClick", "", "", Some(tag))
    /\ published' = <<Event("filter-by-tag", "", Some(tag))>>
    /\ uncaught' = FALSE
    /\ scrollTimeout' = None
    /\ filterSessionsByTag(tag)
    /\ activeTags' = ItemsNamed(tagItems, tag)
    /\ OutsideClick
    /\ UNCHANGED <<loadVars, modalVars>>

\* the tags a filter-by-tag event can carry: every tag of the dataset, and
\* one that no session bears
UnknownTag == <<"z", "z">>
EventTags(data) == Range(AllTags(data)) \cup {UnknownTag}

\* a filter-by-tag event published on the document by any other party: the
\* listener of initApp calls filterSessionsByTag and leaves the tag cloud alone
FilterByTagEvent(tag) ==
    /\ "bus" \in handlers
    /\ lastOp' = Op("filterByTagEvent", "", "", Some(tag))
    /\ published' = <<>>
    /\ uncaught' = FALSE
    /\ scrollTimeout' = None
    /\ filterSessionsByTag(tag)
    /\ UNCHANGED <<loadVars, activeTags, modalVars, searchVars>>

\* resetTagFilter that leaves the highlight in place
resetTagFilter_keepsHighlight == activeTags' = activeTags

\* resetTagFilter()
resetTagFilter == activeTags' = {}

\* the clear-filter handler re-rendering with the filter still in force
ClearFilterClick_keepsFilter ==
    /\ banner # None
    /\ lastOp' = Op("clearFilterClick", "", "", NoText)
    /\ published' = <<Event("reset-tag-filter", "", None)>>
    /\ uncaught' = FALSE
    /\ scrollTimeout' = None
    /\ renderSchedule(conferenceData, currentFilter)
    /\ resetTagFilter
    /\ OutsideClick
    /\ UNCHANGED <<loadVars, activeTabs, activeContent, modalVars>>

\* click on the clear-filter button of the banner
ClearFilterClick ==
    /\ banner # None
    /\ lastOp' = Op("clearFilterClick", "", "", NoText)
    /\ published' = <<Event("reset-tag-filter", "", None)>>
    /\ uncaught' = FALSE
    /\ scrollTimeout' = None
    /\ renderSchedule(conferenceData, None)
    /\ resetTagFilter
    /\ OutsideClick
    /\ UNCHANGED <<loadVars, activeTabs, activeContent, modalVars>>

\* a reset-tag-filter event published on the document by any other party
ResetTagFilterEvent ==
    /\ "bus" \in handlers
    /\ lastOp' = Op("resetTagFilterEvent", "", "", NoText)
    /\ published' = <<>>
    /\ uncaught' = FALSE
    /\ scrollTimeout' = None
    /\ resetTagFilter
    /\ UNCHANGED <<loadVars, scheduleVars, activeTabs, activeContent, modalVars,
                   searchVars>>

\* the session ids of the .session elements in the schedule
RenderedSessions == UNION {Range(SessionsOf(sections[k])) : k \in 1..Len(sections)}

\* the sessions the user can activate: those of a day section that is shown
\* (a .day-schedule without the class active is not displayed)
ClickableSessions ==
    UNION {Range(SessionsOf(sections[k])) :
               k \in {j \in 1..Len(sections) : sections[j].day \in activeSections}}

\* showSessionDetail of a session element: dispatch session-selected
SelectSession(sessionId) ==
    /\ published' = <<Event("session-selected", sessionId, None)>>
    /\ uncaught' = FALSE
    /\ showSessionDetails(sessionId)
    /\ UNCHANGED <<loadVars, currentFilter, banner, sections, noResults,
                   activeContent, activeTags>>

\* click on a session of the schedule
SessionClick(sessionId) ==
    /\ sessionId \in ClickableSessions
    /\ lastOp' = Op("sessionClick", "", sessionId, NoText)
    /\ SelectSession(sessionId)
    /\ OutsideClick

\* Enter or Space on a focused session of the schedule
SessionKey(sessionId) ==
    /\ sessionId \in ClickableSessions
    /\ lastOp' = Op("sessionKey", "", sessionId, NoText)
    /\ SelectSession(sessionId)
    /\ UNCHANGED searchVars

\* the ids a session-selected event can carry: every session's, and one that
\* names no session
UnknownSession == "s0"
SessionIds(data) ==
    LET all == getAllSessions(data) IN {all[i].id : i \in 1..Len(all)}

\* a session-selected event published on the document by any other party
SessionSelectedEvent(sessionId) ==
    /\ "detail" \in handlers
    /\ lastOp' = Op("sessionSelectedEvent", "", sessionId, NoText)
    /\ published' = <<>>
    /\ uncaught' = FALSE
    /\ showSessionDetails(sessionId)
    /\ UNCHANGED <<loadVars, currentFilter, banner, sections, noResults,
                   activeContent, activeTags, searchVars>>

Closing ==
    /\ published' = <<>>
    /\ uncaught' = FALSE
    /\ scrollTimeout' = None
    /\ hideSessionDetails
    /\ UNCHANGED <<loadVars, scheduleVars, activeTabs, activeContent, activeTags>>

\* click on .modal-close
ModalCloseClick ==
    /\ "detail" \in handlers
    /\ modalActive
    /\ lastOp' = Op("modalCloseClick", "", "", NoText)
    /\ Closing
    /\ OutsideClick

\* click on #modal-overlay
OverlayClick ==
    /\ "detail" \in handlers
    /\ overlayActive
    /\ lastOp' = Op("overlayClick", "", "", NoText)
    /\ Closing
    /\ OutsideClick

\* keydown with key Escape, anywhere
EscapeKey ==
    /\ "detail" \in handlers
    /\ lastOp' = Op("escapeKey", "", "", NoText)
    /\ Closing
    /\ UNCHANGED searchVars

\* hideSearchResults that leaves the panel as it is
hideSearchResults_noop == resultsShown' = resultsShown

\* hideSearchResults()
hideSearchResults == resultsShown' = FALSE

\* the input listener of setupSearch, on the field's new value
SearchInput(value) ==
    /\ "search" \in handlers
    /\ value # inputValue
    /\ LET searchTerm == Trim(value)
           cleared == IF debounceTimer # 0
                      THEN clearTimeout(timers, debounceTimer)
                      ELSE timers
       IN  /\ lastOp' = Op("searchInput", "", "", Some(searchTerm))
           /\ lastInput' = Some(searchTerm)
           /\ IF Len(searchTerm) < MIN_SEARCH_LENGTH
              THEN /\ hideSearchResults
                   /\ timers' = cleared
                   /\ UNCHANGED debounceTimer
              ELSE /\ \E h \in FreeHandles(cleared, debounceTimer) :
                          /\ \A g \in FreeHandles(cleared, debounceTimer) : h <= g
                          /\ timers' = [cleared EXCEPT ![h] =
                                 Some([term |-> searchTerm,
                                       remaining |-> SEARCH_DEBOUNCE_TIME])]
                          /\ debounceTimer' = h
                   /\ UNCHANGED resultsShown
    /\ inputValue' = value
    /\ sinceInput' = 0
    /\ dismissed' = FALSE
    /\ published' = <<>>
    /\ uncaught' = FALSE
    /\ scrollTimeout' = None
    /\ UNCHANGED <<loadVars, scheduleVars, activeTabs, activeContent, activeTags,
                   modalVars, results, noMatchItem, resultsTerm>>

\* time passes; a timeout that is due runs before more time passes
Tick ==
    /\ \A h \in PendingHandles : timers[h][1].remaining > 0
    /\ PendingHandles # {} \/ sinceInput < SEARCH_DEBOUNCE_TIME
    /\ timers' = [h \in Handles |->
                    IF timers[h] = None
                    THEN None
                    ELSE Some([timers[h][1] EXCEPT
                                 !.remaining = Max(0, @ - TickMs)])]
    /\ sinceInput' = Min(SEARCH_DEBOUNCE_TIME, sinceInput + TickMs)
    /\ lastOp' = Op("tick", "", "", NoText)
    /\ published' = <<>>
    /\ uncaught' = FALSE
    /\ scrollTimeout' = None
    /\ UNCHANGED <<loadVars, scheduleVars, activeTabs, activeContent, activeTags,
                   modalVars, inputValue, debounceTimer, resultsShown, results,
                   noMatchItem, resultsTerm, lastInput, dismissed>>

\* displaySearchResults(results)
displaySearchResults(found) ==
    /\ results' = [i \in 1..Len(found) |-> found[i].id]
    /\ noMatchItem' = (Len(found) = 0)
    /\ resultsShown' = TRUE

\* the debounce callback: performSearch(searchTerm)
TimerFire(h) ==
    /\ h \in PendingHandles
    /\ timers[h][1].remaining = 0
    /\ timers' = [timers EXCEPT ![h] = None]
    /\ lastOp' = Op("performSearch", "", "", Some(timers[h][1].term))
    /\ published' = <<>>
    /\ scrollTimeout' = None
    /\ IF RegExpThrows(timers[h][1].term)
       THEN \* the SyntaxError leaves the timer callback
            /\ uncaught' = TRUE
            /\ UNCHANGED <<results, noMatchItem, resultsShown, resultsTerm>>
       ELSE /\ displaySearchResults(
                   SearchResults(timers[h][1].term, getAllSessions(conferenceData)))
            /\ resultsTerm' = Some(timers[h][1].term)
            /\ uncaught' = FALSE
    /\ UNCHANGED <<loadVars, scheduleVars, activeTabs, activeContent, activeTags,
                   modalVars, inputValue, debounceTimer, lastInput, sinceInput,
                   dismissed>>

\* the result item's click handler without the clearing of the input
ResultClick_keepsInput(i) ==
    /\ "search" \in handlers
    /\ resultsShown
    /\ i \in 1..Len(results)
    /\ lastOp' = Op("resultClick", "", results[i], NoText)
    /\ SelectSession(results[i])
    /\ hideSearchResults
    /\ dismissed' = TRUE
    /\ UNCHANGED <<inputValue, debounceTimer, timers, results, noMatchItem,
                   resultsTerm, lastInput, sinceInput>>

\* click on the i-th item of the results panel
ResultClick(i) ==
    /\ "search" \in handlers
    /\ resultsShown
    /\ i \in 1..Len(results)
    /\ lastOp' = Op("resultClick", "", results[i], NoText)
    /\ SelectSession(results[i])
    /\ inputValue' = <<>>
    /\ hideSearchResults
    /\ dismissed' = TRUE
    /\ UNCHANGED <<debounceTimer, timers, results, noMatchItem, resultsTerm,
                   lastInput, sinceInput>>

\* click on the page outside the search field, the results and every control
PageClick ==
    /\ "search" \in handlers
    /\ resultsShown
    /\ lastOp' = Op("pageClick", "", "", NoText)
    /\ published' = <<>>
    /\ uncaught' = FALSE
    /\ scrollTimeout' = None
    /\ OutsideClick
    /\ UNCHANGED <<loadVars, scheduleVars, activeTabs, activeContent, activeTags,
                   modalVars>>

\* the ids a caller may hand to the data service: those of the page's tabs,
\* and two that name no day
QueryDayIds == DayTabs \cup {"day3", ""}

\* the data service functions read the document and touch nothing of the page
Quiet ==
    /\ published' = <<>>
    /\ scrollTimeout' = None
    /\ uncaught' = FALSE
    /\ UNCHANGED <<phase, handlers, conferenceData, errorMessage, tagItems, fetched,
                   scheduleVars, activeTabs, activeContent, activeTags, modalVars,
                   searchVars>>

\* a call of getAllSessions(conferenceData)
GetAllSessions ==
    /\ fetched.outcome = "ok"
    /\ lastOp' = Op("getAllSessions", "", "", NoText)
    /\ answer' = [call |-> "getAllSessions", arg |-> "",
                  value |-> getAllSessions(conferenceData)]
    /\ Quiet

\* a call of getSessionsByDay(conferenceData, dayId)
GetSessionsByDay(dayId) ==
    /\ fetched.outcome = "ok"
    /\ lastOp' = Op("getSessionsByDay", dayId, "", NoText)
    /\ answer' = [call |-> "getSessionsByDay", arg |-> dayId,
                  value |-> getSessionsByDay(conferenceData, dayId)]
    /\ Quiet

\* a call of getSessionById(conferenceData, sessionId)
GetSessionById(sessionId) ==
    /\ fetched.outcome = "ok"
    /\ lastOp' = Op("getSessionById", "", sessionId, NoText)
    /\ answer' = [call |-> "getSessionById", arg |-> sessionId,
                  value |-> getSessionById(conferenceData, sessionId)]
    /\ Quiet

\* the steps of the schedule, the tabs and the tag cloud
ScheduleStep ==
    \/ \E tab \in TabButtons : TabClick(tab)
    \/ \E k \in 1..Len(tagItems) : TagClick(tagItems[k].tag)
    \/ ClearFilterClick
    \/ ResetTagFilterEvent
    \/ \E tag \in EventTags(conferenceData) : FilterByTagEvent(tag)

\* the steps of the session detail view
DetailStep ==
    \/ \E sessionId \in RenderedSessions : SessionClick(sessionId)
    \/ \E sessionId \in RenderedSessions : SessionKey(sessionId)
    \/ \E sessionId \in SessionIds(conferenceData) \cup {UnknownSession} :
           SessionSelectedEvent(sessionId)
    \/ ModalCloseClick
    \/ OverlayClick
    \/ EscapeKey

\* the steps of the search
SearchStep ==
    \/ \E value \in InputValues : SearchInput(value)
    \/ Tick
    \/ \E h \in Handles : TimerFire(h)
    \/ \E i \in 1..Len(results) : ResultClick(i)
    \/ PageClick

Load == \E response \in Responses : InitApp(response)

Next == Load \/ ScheduleStep \/ DetailStep \/ SearchStep

\* the application with every user action and timer
Spec == Init /\ [][Next]_vars

\* the user works the schedule, the tabs and the tag cloud only
NextSchedule == Load \/ ScheduleStep
SpecSchedule == Init /\ [][NextSchedule]_vars

\* the user works the day tabs, the tag filter and the session detail view
NextDetail ==
    \/ Load
    \/ \E tab \in DayTabs : TabClick(tab)
    \/ \E k \in 1..Len(tagItems) : TagClick(tagItems[k].tag)
    \/ ClearFilterClick
    \/ DetailStep
SpecDetail == Init /\ [][NextDetail]_vars

\* the user clicks tags of the tag cloud and the clear-filter control, and
\* the tabs, which leave filter and highlight alone
NextFilter ==
    \/ Load
    \/ \E tab \in TabButtons : TabClick(tab)
    \/ \E k \in 1..Len(tagItems) : TagClick(tagItems[k].tag)
    \/ ClearFilterClick
SpecFilter == Init /\ [][NextFilter]_vars

\* the user works the search only
NextSearch == Load \/ SearchStep
SpecSearch == Init /\ [][NextSearch]_vars

\* the data service is called on the document loaded, the page left alone
NextStore ==
    \/ Load
    \/ GetAllSessions
    \/ \E dayId \in QueryDayIds : GetSessionsByDay(dayId)
    \/ \E sessionId \in SessionIds(conferenceData) \cup {UnknownSession} :
           GetSessionById(sessionId)
SpecStore == Init /\ [][NextStore]_vars

(***************************************************************************)
(* Vocabulary of the properties.                                           *)
(***************************************************************************)
Days == conferenceData.days

\* the ids of a sequence of sessions
IdsOf(sessions) == [i \in 1..Len(sessions) |-> sessions[i].id]

\* the sessions the schedule shows for a day, in document order
RenderedOfDay(dayId) ==
    LET shown == SelectSeq(sections, LAMBDA section : section.day = dayId)
    IN  IF shown = <<>> THEN <<>> ELSE SessionsOf(shown[1])

\* the day has a .day-schedule element in the schedule
HasSection(dayId) == \E k \in 1..Len(sections) : sections[k].day = dayId

\* the sessions of a day that bear the tag, in the day's order
TaggedOfDay(day, tag) ==
    SelectSeq(day.sessions, LAMBDA session : \E i \in 1..Len(session.tags) : session.tags[i] = tag)

\* every session of every day is in the schedule
FullView == \A d \in 1..Len(Days) : Range(RenderedOfDay(Days[d].id)) = Range(IdsOf(Days[d].sessions))

\* C1: after a filter-by-tag event carrying tag t, each day shows exactly its
\* sessions whose tag list contains t, in their within-day order, uncapped
C1_FilterShowsExactlyTagged ==
    lastOp.op = "tagClick" =>
        /\ published = <<Event("filter-by-tag", "", lastOp.text)>>
        /\ \A d \in 1..Len(Days) :
               RenderedOfDay(Days[d].id) = IdsOf(TaggedOfDay(Days[d], lastOp.text[1]))

\* what remains of C1 for a tag that is not the empty text, order aside
C1_NonEmptyTagShowsTaggedSet ==
    (lastOp.op = "tagClick" /\ lastOp.text[1] # <<>>) =>
        \A d \in 1..Len(Days) :
            Range(RenderedOfDay(Days[d].id)) = Range(IdsOf(TaggedOfDay(Days[d], lastOp.text[1])))

\* the order part of C1 alone
C1_OrderWithinDay ==
    (lastOp.op = "tagClick" /\ lastOp.text[1] # <<>>) =>
        \A d \in 1..Len(Days) :
            RenderedOfDay(Days[d].id) = IdsOf(TaggedOfDay(Days[d], lastOp.text[1]))

\* C2: the clear-filter control brings any filtered view back to the full
\* view: every session of every day is rendered and no filter tag is active
C2_ClearRestoresFullView ==
    lastOp.op = "clearFilterClick" =>
        /\ currentFilter = None
        /\ banner = None
        /\ ~noResults
        /\ FullView
        /\ Cardinality(RenderedSessions) = Len(getAllSessions(conferenceData))

\* the end-to-end example after the clear: all 5 sessions of the two days
C2_Witness ==
    /\ lastOp.op = "clearFilterClick"
    /\ conferenceData = Conference(<<Day1Plain, Day2Plain>>)
    /\ Cardinality(RenderedSessions) = 5
    /\ Len(sections) = 2

\* no filter is in force (renderSchedule treats null and '' alike)
NoActiveFilter == ~TruthyTag(currentFilter) /\ banner = None

\* C3 as stated: both the clear-filter control and a reset-tag-filter event
\* leave the schedule re-rendered in full, without filter tag, and the tag
\* cloud without highlight
C3_ClearOrResetLeavesFullView ==
    lastOp.op \in {"clearFilterClick", "resetTagFilterEvent"} =>
        /\ NoActiveFilter
        /\ FullView
        /\ activeTags = {}

\* C3 amended: the clear-filter control leaves the schedule re-rendered in
\* full, without filter tag, and the tag cloud without highlight; a
\* reset-tag-filter event only removes the highlight and leaves the schedule
\* and its filter as they are
C3_ClearLeavesFullViewResetOnlyUnhighlights ==
    [][ /\ lastOp'.op = "clearFilterClick" =>
              /\ NoActiveFilter'
              /\ FullView'
              /\ activeTags' = {}
        /\ lastOp'.op = "resetTagFilterEvent" =>
              /\ activeTags' = {}
              /\ UNCHANGED scheduleVars ]_vars

\* a reset-tag-filter event has left a filtered schedule filtered
C3_Witness ==
    /\ lastOp.op = "resetTagFilterEvent"
    /\ TruthyTag(currentFilter)
    /\ banner = currentFilter
    /\ ~FullView
    /\ activeTags = {}

\* C4: setActiveDay(dayId) changes neither the rendered day sections nor
\* their sessions, and where no rendered section has id dayId the set of
\* active day sections stays what it was
C4_SetActiveDayNoOpWhenNotRendered ==
    [][ (lastOp'.op = "tabClick" /\ lastOp'.day \in DayTabs) =>
            /\ sections' = sections
            /\ ~HasSection(lastOp'.day) => activeSections' = activeSections ]_vars

\* what holds of setActiveDay: the rendered sections are untouched, and the
\* active sections are the section of dayId, or none where it is not rendered
C4_SetActiveDayActual ==
    [][ (lastOp'.op = "tabClick" /\ lastOp'.day \in DayTabs) =>
            /\ sections' = sections
            /\ activeSections' = IF HasSection(lastOp'.day) THEN {lastOp'.day} ELSE {} ]_vars

\* the pattern matches the text of at least one of the four fields
FieldMatches(term, session) ==
    \E text \in {session.title, session.speaker, session.description}
                    \cup Range(session.tags) : RegExpTest(term, text)

\* the positions in getAllSessions of the sessions that match the term
MatchingPositions(term) ==
    LET all == getAllSessions(conferenceData)
    IN  {i \in 1..Len(all) : FieldMatches(term, all[i])}

\* a search has run to its end for the term (the pattern compiled)
Searched(term) ==
    lastOp.op = "performSearch" /\ lastOp.text = Some(term) /\ ~RegExpThrows(term)

\* C5: an input event cancels the scheduled search before scheduling a new
\* one: at most one search is pending, a pending search is for the query of
\* the most recent input event and is not due before 300 ms have passed
\* since it, and a search that runs is for that query, 300 ms after it
C5_DebounceOnePendingLatestQuery ==
    /\ Cardinality(PendingHandles) <= 1
    /\ \A h \in PendingHandles :
           /\ Some(timers[h][1].term) = lastInput
           /\ timers[h][1].remaining + sinceInput >= 300
    /\ lastOp.op = "performSearch" => (lastOp.text = lastInput /\ sinceInput >= 300)

\* a search has run for the query of the second timer scheduled
C5_Witness ==
    /\ lastOp.op = "performSearch"
    /\ debounceTimer = 2
    /\ resultsTerm = lastInput
    /\ resultsShown

\* C6: an input event with a trimmed query of fewer than 2 characters hides
\* the panel at once, leaves no search pending and runs none; a search that
\* finds nothing shows the panel with the 'No matching sessions found' item
C6_ShortQueryHidesNoMatchShows ==
    /\ (lastOp.op = "searchInput" /\ Len(lastOp.text[1]) < 2) =>
           (~resultsShown /\ PendingHandles = {})
    /\ \A term \in {Trim(v) : v \in InputValues} :
           (Searched(term) /\ MatchingPositions(term) = {}) =>
               (resultsShown /\ noMatchItem /\ results = <<>>)

\* a one-character query has hidden a panel that an earlier search had filled
C6_Witness ==
    /\ lastOp.op = "searchInput"
    /\ lastOp.text = Some(<<"a">>)
    /\ resultsTerm # None
    /\ ~resultsShown
    /\ PendingHandles = {}

\* C7: a search returns the first at most 5 sessions, in getAllSessions
\* order, that match the query in title, speaker, description or a tag
C7_SearchReturnsFirstFiveMatches ==
    \A term \in {Trim(v) : v \in InputValues} :
        Searched(term) =>
            LET all == getAllSessions(conferenceData)
                hits == MatchingPositions(term)
            IN  /\ Len(results) <= 5
                /\ Len(results) = Min(5, Cardinality(hits))
                /\ \A r \in 1..Len(results) :
                       \E i \in hits : /\ all[i].id = results[r]
                                       /\ Cardinality({j \in hits : j < i}) = r - 1

\* a search with more than 5 matching sessions has shown 5
C7_Witness ==
    /\ lastOp.op = "performSearch"
    /\ Cardinality(MatchingPositions(lastOp.text[1])) > 5
    /\ ~RegExpThrows(lastOp.text[1])
    /\ Len(results) = 5

\* C8: selecting a search result publishes session-selected with that
\* result's session id, and leaves the input empty and the panel hidden
C8_ResultClickPublishesAndClears ==
    lastOp.op = "resultClick" =>
        /\ lastOp.session \in Range(results)
        /\ published = <<Event("session-selected", lastOp.session, None)>>
        /\ inputValue = <<>>
        /\ ~resultsShown

\* a result has been selected after a query was typed
C8_Witness ==
    /\ lastOp.op = "resultClick"
    /\ lastInput # None
    /\ detail = Some(lastOp.session)
    /\ inputValue = <<>>
    /\ ~resultsShown

SelectOps == {"sessionClick", "sessionKey", "sessionSelectedEvent", "resultClick"}
CloseOps == {"modalCloseClick", "overlayClick", "escapeKey"}

\* the id of the day whose sessions include the session
OwningDay(sessionId) ==
    Days[CHOOSE d \in 1..Len(Days) : sessionId \in Range(IdsOf(Days[d].sessions))].id

\* modal, overlay and scroll suppression go together
ModalTogether == (modalActive <=> overlayActive) /\ (modalActive <=> bodyOverflow = "hidden")

C10_CloseReversesOpening ==
    (lastOp.op \in CloseOps /\ beforeOpen # None) =>
        /\ ~modalActive /\ ~overlayActive /\ bodyOverflow = ""
        /\ activeTabs = beforeOpen[1].tabs
        /\ activeSections = beforeOpen[1].sections

\* C10 amended: closing the detail view by any of its three triggers takes
\* modal and overlay away and restores scrolling; the active day tab and day
\* section stay as they are at the time of closing
C10_CloseHidesModalKeepsDay ==
    [][ lastOp'.op \in CloseOps =>
            /\ ~modalActive' /\ ~overlayActive' /\ bodyOverflow' = ""
            /\ activeTabs' = activeTabs
            /\ activeSections' = activeSections ]_vars

\* the detail view has been closed with the day of the selected session active,
\* another day than before the selection
C10_Witness ==
    /\ lastOp.op \in CloseOps
    /\ beforeOpen # None
    /\ ~modalActive /\ ~overlayActive /\ bodyOverflow = ""
    /\ detail # None
    /\ activeSections = {OwningDay(detail[1])}
    /\ activeSections # beforeOpen[1].sections

\* C11: a session-selected event whose sessionId names no session of the
\* dataset changes nothing: modal, overlay, scroll suppression, active tab,
\* active day section and detail content stay as they are, and no scroll
\* and highlight timeout is started
C11_UnknownSessionChangesNothing ==
    [][ (lastOp'.op = "sessionSelectedEvent"
            /\ lastOp'.session \notin SessionIds(conferenceData)) =>
            /\ modalActive' = modalActive
            /\ overlayActive' = overlayActive
            /\ bodyOverflow' = bodyOverflow
            /\ activeTabs' = activeTabs
            /\ activeSections' = activeSections
            /\ detail' = detail
            /\ scrollTimeout' = None ]_vars

\* the event naming no session has arrived while the detail view was open on
\* a session, and the view is still open on it
C11_Witness ==
    /\ lastOp.op = "sessionSelectedEvent"
    /\ lastOp.session = UnknownSession
    /\ UnknownSession \notin SessionIds(conferenceData)
    /\ modalActive /\ overlayActive /\ bodyOverflow = "hidden"
    /\ detail # None
    /\ scrollTimeout = None

\* initApp has ended in its catch block before any view was set up
LoadFailed == phase = "failed" /\ handlers = {} /\ errorMessage

\* C12: loading fails, with no view set up on the data, on a network error,
\* on a non-2xx status, on malformed JSON and on a parsed document without a
\* days array; in every other case the conference fetched is the one in use
C12_LoadFailsOnBadFetchOrMissingDays ==
    phase # "boot" =>
        /\ LoadFailed <=>
               \/ fetched.outcome \in {"networkError", "httpError", "malformedJson"}
               \/ ~fetched.body.hasDays
        /\ ~LoadFailed => conferenceData = fetched.body

\* what the code does instead: loading fails exactly when the fetch or the
\* parse throws or the document is falsy
C12_LoadFailsOnBadFetchOnly ==
    phase # "boot" =>
        /\ LoadFailed <=> fetched.outcome # "ok"
        /\ ~LoadFailed => conferenceData = fetched.body

\* C13: a data-load failure is terminal: the error message stands in the
\* schedule area, no schedule or tag cloud is rendered, no handler is
\* installed, and nothing can happen any more, a retry of the fetch included
C13_LoadFailureIsTerminal ==
    fetched.outcome \in {"networkError", "httpError", "malformedJson", "nullDocument"} =>
        /\ phase = "failed"
        /\ errorMessage
        /\ handlers = {}
        /\ sections = <<>>
        /\ tagItems = <<>>
        /\ ~modalActive
        /\ ~resultsShown
        /\ ~ENABLED Next

\* the load has failed on malformed JSON and the error message is shown
C13_Witness ==
    /\ fetched.outcome = "malformedJson"
    /\ phase = "failed"
    /\ errorMessage
    /\ lastOp.op = "initApp"

\* C14: no sequence of user actions and timer firings makes an event handler
\* or a timer callback throw an uncaught error, whatever text is typed into
\* the search field
C14_NoUncaughtError == ~uncaught

\* what holds instead: an error is left uncaught only by the debounce callback
\* of a query that is no valid regular expression, and the panel keeps what
\* it showed
C14_OnlyInvalidPatternThrows ==
    [][ uncaught' =>
            /\ lastOp'.op = "performSearch"
            /\ RegExpThrows(lastOp'.text[1])
            /\ <<results, noMatchItem, resultsShown, resultsTerm>>' =
                   <<results, noMatchItem, resultsShown, resultsTerm>> ]_vars

\* the number of sessions of the days before the d-th
RECURSIVE SessionsBefore(_, _)
SessionsBefore(days, d) ==
    IF d <= 1 THEN 0 ELSE SessionsBefore(days, d - 1) + Len(days[d - 1].sessions)

\* the fields of a record r are those of the stored session, unaltered
CarriesSession(r, session) ==
    /\ r.id = session.id
    /\ r.time = session.time
    /\ r.tags = session.tags
    /\ r.title = session.title
    /\ r.speaker = session.speaker
    /\ r.description = session.description

\* the fields dayId, dayName and date of a record r are those of the day
CarriesDay(r, day) ==
    /\ r.dayId = day.id
    /\ r.dayName = day.name
    /\ r.date = day.date

\* C15: getAllSessions returns as many elements as the days have sessions,
\* in day order and within a day in the day's order, each with the dayId,
\* dayName and date of its own day; the stored document is left as fetched
C15_AllSessionsFlattenedAndAnnotated ==
    answer.call = "getAllSessions" =>
        /\ conferenceData = fetched.body
        /\ IF ~conferenceData.hasDays
           THEN answer.value = <<>>
           ELSE /\ Len(answer.value) = SessionsBefore(Days, Len(Days) + 1)
                /\ \A d \in 1..Len(Days) :
                       \A i \in 1..Len(Days[d].sessions) :
                           LET r == answer.value[SessionsBefore(Days, d) + i]
                           IN  /\ CarriesSession(r, Days[d].sessions[i])
                               /\ CarriesDay(r, Days[d])

\* the six sessions of two days of three have been returned, the fourth
\* being the first of day 2
C15_Witness ==
    /\ answer.call = "getAllSessions"
    /\ conferenceData = Conference(<<Day1Odd, Day2Many>>)
    /\ Len(answer.value) = 6
    /\ answer.value[4].id = "t1"
    /\ answer.value[4].dayId = "day2"
    /\ answer.value[3].dayName = "Day 1"

\* C16: getSessionsByDay returns the empty sequence for a day id that names
\* no day (and for a document without days), and the named day's sessions in
\* their order for a day id that names one
C16_SessionsByDayTotal ==
    answer.call = "getSessionsByDay" =>
        IF \E d \in 1..Len(Days) : Days[d].id = answer.arg
        THEN \E d \in 1..Len(Days) :
                 /\ Days[d].id = answer.arg
                 /\ answer.value = Days[d].sessions
        ELSE answer.value = <<>>

\* the sessions of a day the one-day conference does not have were asked for
C16_Witness ==
    /\ answer.call = "getSessionsByDay"
    /\ answer.arg = "day2"
    /\ Len(Days) = 1
    /\ Days[1].sessions # <<>>
    /\ answer.value = <<>>

\* the number of sessions of the whole dataset that bear the tag
Bearing(tag) ==
    LET all == getAllSessions(conferenceData)
    IN  Cardinality({i \in 1..Len(all) : Includes(all[i].tags, tag)})

\* the tags that occur in the dataset
TagsOfDataset == Range(AllTags(conferenceData))

\* C17: whatever the filter state, after any sequence of tag selections,
\* clear-filter actions and reset events, the tag cloud has one item per tag
\* of the dataset and its count is the number of sessions of the whole
\* dataset that bear the tag
C17_CountsAreSessionsBearingTag ==
    phase = "ready" =>
        /\ {tagItems[k].tag : k \in 1..Len(tagItems)} = TagsOfDataset
        /\ \A k \in 1..Len(tagItems) : tagItems[k].count = Bearing(tagItems[k].tag)

\* what holds of C17: the counts of the tags that name no inherited property
\* are the numbers of sessions bearing them
C17_OrdinaryTagsCounted ==
    phase = "ready" =>
        /\ {tagItems[k].tag : k \in 1..Len(tagItems)} = TagsOfDataset
        /\ \A k \in 1..Len(tagItems) :
               tagItems[k].tag \notin InheritedTags =>
                   tagItems[k].count = Bearing(tagItems[k].tag)

\* what holds of C17: no tag selection, clear-filter action or reset event
\* touches the items of the cloud
C17_CloudUntouchedByFilter ==
    [][ phase = "ready" => tagItems' = tagItems ]_vars

\* a / b <= c / d for positive denominators
SizeLeq(s, t) == s.num * t.den <= t.num * s.den

MinSize == Size(MIN_FONT_SIZE, 1)
MaxSize == Size(MAX_FONT_SIZE, 1)

\* the sizes of the items are as C18 says, counts being the numbers of
\* sessions bearing the tags
SizesInterpolated ==
    LET items == 1..Len(tagItems)
        B(k) == Bearing(tagItems[k].tag)
        size(k) == tagItems[k].size
        allSame == \A j, k \in items : B(j) = B(k)
    IN  /\ \A k \in items :
               /\ size(k).num # NaN
               /\ SizeLeq(MinSize, size(k))
               /\ SizeLeq(size(k), MaxSize)
        /\ allSame => \A k \in items : SizeLeq(size(k), MinSize)
        /\ ~allSame =>
               /\ \A j, k \in items : B(j) <= B(k) => SizeLeq(size(j), size(k))
               /\ \A k \in items :
                      (\A j \in items : B(k) <= B(j)) => SizeLeq(size(k), MinSize)
               /\ \A k \in items :
                      (\A j \in items : B(j) <= B(k)) => SizeLeq(MaxSize, size(k))

\* C18: when all tags have the same count every tag has the minimum size;
\* otherwise the size does not decrease with the count, the least frequent
\* tags have the minimum size, the most frequent the maximum size, and every
\* size lies between the two
C18_SizesFollowCounts == phase = "ready" => SizesInterpolated

\* what holds of C18: the sizes are as said in every cloud whose counts are
\* all numbers
C18_SizesFollowNumericCounts ==
    (phase = "ready" /\ \A k \in 1..Len(tagItems) : tagItems[k].count # NaN) =>
        SizesInterpolated

\* C19: a click on a tag publishes filter-by-tag with that tag and leaves
\* exactly that tag highlighted; at most one tag is highlighted at any time,
\* and none after a reset
C19_TagSelectionIsSingleSelect ==
    /\ Cardinality(activeTags) <= 1
    /\ lastOp.op = "tagClick" =>
           /\ published = <<Event("filter-by-tag", "", lastOp.text)>>
           /\ activeTags = {lastOp.text[1]}
    /\ lastOp.op \in {"resetTagFilterEvent", "clearFilterClick"} => activeTags = {}

\* a tag of a cloud of three tags has been clicked and is the one highlighted
C19_Witness ==
    /\ lastOp.op = "tagClick"
    /\ Len(tagItems) >= 3
    /\ lastOp.text = Some(db)
    /\ activeTags = {db}
    /\ banner = Some(db)

\* the day has a time that Object.keys moves or that groupSessionsByTime
\* cannot take as a key
HasOddTime(day) ==
    \E i \in 1..Len(day.sessions) : day.sessions[i].time \in IndexKeys \cup PrototypeKeys

\* the schedule shows the day as C20 says: a section if and only if the day
\* has a visible session, one group per time in first-seen order, and in each
\* group the visible sessions of exactly that time
GroupedInFirstSeenOrder(day) ==
    LET visible == VisibleSessions(conferenceData, day, currentFilter)
        times == FirstSeen(visible, <<>>)
        shown == SelectSeq(sections, LAMBDA section : section.day = day.id)
    IN  /\ Len(shown) = (IF visible = <<>> THEN 0 ELSE 1)
        /\ visible # <<>> =>
               /\ [k \in 1..Len(shown[1].slots) |-> shown[1].slots[k].time] = times
               /\ \A k \in 1..Len(shown[1].slots) :
                      shown[1].slots[k].sessions =
                          IdsOf(SelectSeq(visible,
                                          LAMBDA session : session.time = times[k]))

\* C20: within each rendered day the sessions are grouped by the exact text
\* of their time and the groups come in the order in which each time is
\* first seen, for every time string; a day is rendered if and only if it
\* has a visible session
C20_GroupsInFirstSeenOrder ==
    (fetched.outcome = "ok" /\ ~InvalidData(conferenceData)) =>
        \A d \in 1..Len(Days) : GroupedInFirstSeenOrder(Days[d])

\* what holds of C20: the days are shown so when no time of the conference is
\* a canonical array index or the name of an inherited property
C20_OrdinaryTimesInFirstSeenOrder ==
    (fetched.outcome = "ok" /\ ~InvalidData(conferenceData)
        /\ \A d \in 1..Len(Days) : ~HasOddTime(Days[d])) =>
        \A d \in 1..Len(Days) : GroupedInFirstSeenOrder(Days[d])

\* the schedule is in the filtered view: the filter tag passes the test
\* renderSchedule makes of it
FilteredView == TruthyTag(currentFilter)

\* no day has a session bearing the tag
NoDayMatches(tag) == \A d \in 1..Len(Days) : TaggedOfDay(Days[d], tag) = <<>>

\* C21: in the filtered view the banner with the active tag and its clear
\* control is shown; the empty-state message is shown if and only if the view
\* is filtered and no day has a session bearing the active tag, and so never
\* in the full view
C21_BannerAlwaysEmptyStateOnlyWithoutMatch ==
    (phase = "ready" /\ ~InvalidData(conferenceData)) =>
        /\ FilteredView => banner = currentFilter
        /\ ~FilteredView => banner = None /\ ~noResults
        /\ FilteredView => (noResults <=> NoDayMatches(currentFilter[1]))
        /\ noResults => sections = <<>>

\* the schedule has been filtered by a tag that no session bears: the banner
\* and the empty-state message are shown, and no day
C21_Witness ==
    /\ lastOp.op = "filterByTagEvent"
    /\ currentFilter = Some(UnknownTag)
    /\ banner = Some(UnknownTag)
    /\ noResults
    /\ sections = <<>>
    /\ Len(Days) = 2

\* C22: after any sequence of day-tab clicks, tag selections, clear-filter
\* clicks and session selections, the active day tab and the active day
\* section are of the same day, and whenever a day section is rendered
\* exactly one day section is active
C22_ActiveTabAndSectionAgree ==
    phase = "ready" =>
        /\ activeSections # {} => activeTabs = activeSections
        /\ sections # <<>> => Cardinality(activeSections) = 1

\* what holds of C22: never more than one day section and never more than
\* one tab is active, and an active section is a rendered one
C22_AtMostOneActive ==
    phase = "ready" =>
        /\ Cardinality(activeSections) <= 1
        /\ Cardinality(activeTabs) <= 1
        /\ \A day \in activeSections : HasSection(day)

\* C23: after any sequence of tag clicks and clear-filter clicks a tag of the
\* dataset is highlighted in the tag cloud if and only if it is the schedule's
\* active filter tag, and no tag is highlighted exactly when the schedule is
\* in the full, unfiltered view
C23_CloudAndScheduleInStep ==
    (phase = "ready" /\ ~InvalidData(conferenceData)) =>
        /\ \A tag \in Range(AllTags(conferenceData)) :
               tag \in activeTags <=> currentFilter = Some(tag)
        /\ activeTags = {} <=> NoActiveFilter

\* what holds of C23: the highlighted tag is the tag last handed to the
\* schedule, and unless that tag is the empty text no tag is highlighted
\* exactly when the schedule is unfiltered
C23_NonEmptyTagsInStep ==
    (phase = "ready" /\ ~InvalidData(conferenceData)) =>
        /\ \A tag \in Range(AllTags(conferenceData)) :
               tag \in activeTags <=> currentFilter = Some(tag)
        /\ currentFilter # Some(<<>>) => (activeTags = {} <=> NoActiveFilter)
        /\ currentFilter = Some(<<>>) => (activeTags = {<<>>} /\ NoActiveFilter /\ FullView)

\* C24: once a result click or an outside click has hidden the results panel
\* it stays hidden until the next input event, so the panel is never visible
\* while the input is empty; the outside click leaves the input text unchanged
C24_HiddenPanelStaysHiddenUntilInput ==
    [][ /\ dismissed' => ~resultsShown'
        /\ resultsShown' => inputValue' # <<>>
        /\ lastOp'.op = "pageClick" => inputValue' = inputValue ]_vars

\* what holds of C24: both clicks hide the panel and leave the pending
\* debounce timeout running, the outside click leaves the input text as it
\* is, and the result click empties it
C24_ClicksHideAndKeepTimers ==
    [][ /\ lastOp'.op \in {"pageClick", "resultClick"} =>
              /\ ~resultsShown'
              /\ dismissed'
              /\ UNCHANGED <<timers, debounceTimer>>
        /\ lastOp'.op = "pageClick" => inputValue' = inputValue
        /\ lastOp'.op = "resultClick" => inputValue' = <<>> ]_vars

\* a panel that re-opens after such a click is opened by the debounce
\* callback of a search scheduled before the click
C24_OnlyPendingSearchReopens ==
    [][ (dismissed /\ ~resultsShown /\ resultsShown') =>
            /\ lastOp'.op = "performSearch"
            /\ PendingHandles # {} ]_vars

====
